---- MODULE Spec2Model ----
(***************************************************************************)
(* A model of antbee-rs: the dataset builder (src/antbee/dataset.rs), the  *)
(* logistic-regression classifier (src/antbee/model.rs) and the training   *)
(* driver (src/main.rs).                                                    *)
(*                                                                          *)
(* Numbers.  The program computes in f32.  An f32 is modelled as a binary  *)
(* fixed-point number with FracBits fractional bits: the integer n stands  *)
(* for n / 2^FracBits, and every operation whose exact result is not       *)
(* representable rounds it to the nearest representable value, ties to     *)
(* even, as IEEE-754 does.  0/0 is NaN and x/0 is an infinity, as in f32.  *)
(* The library functions exp, ln and sqrt are computed to the model's      *)
(* resolution.                                                              *)
(***************************************************************************)
EXTENDS Integers, Sequences, FiniteSets, Bags, TLC

(***************************************************************************)
(* Bounds of the model.                                                     *)
(***************************************************************************)
\* fractional bits of the modelled f32 (f32 itself has a 24-bit significand)
FracBits == 12
\* pixels of a resized raster (28 * 28 in the program, dataset.rs:34)
NumPixels == 1
\* image files below one dataset directory, both label directories together
MaxFiles == 2

(***************************************************************************)
(* f32 arithmetic.                                                          *)
(***************************************************************************)
One == 2^FracBits
Half == One \div 2

\* n / d (d > 0) rounded to the nearest integer, ties to even
RoundDiv(n, d) ==
    LET q == n \div d
        r == n % d
    IN  IF 2 * r < d THEN q
        ELSE IF 2 * r > d THEN q + 1
        ELSE IF q % 2 = 0 THEN q ELSE q + 1

\* `n as f32` for a small integer n
FromInt(n) == n * One

\* the decimal literal num/den as an f32
Literal(num, den) == RoundDiv(num * One, den)

\* a * b (a product with a whole number is exact, and is taken without the
\* factor 2^FracBits)
F32Mul(a, b) ==
    IF b % One = 0 THEN a * (b \div One)
    ELSE IF a % One = 0 THEN (a \div One) * b
    ELSE RoundDiv(a * b, One)

\* a / b for b # 0 (the quotient of two whole numbers is taken without the
\* common factor 2^FracBits, which leaves the value unchanged)
F32Quot(a, b) ==
    LET n == IF b < 0 THEN -a ELSE a
        d == IF b < 0 THEN -b ELSE b
    IN  IF n % One = 0 /\ d % One = 0 THEN RoundDiv(n, d \div One)
        ELSE RoundDiv(n * One, d)

\* The result of an f32 division whose divisor may be zero.
NaN == [cls |-> "nan", v |-> 0]
Inf(sign) == [cls |-> "inf", v |-> sign]
Num(n) == [cls |-> "num", v |-> n]

F32Div(a, b) ==
    IF b = 0
    THEN IF a = 0 THEN NaN ELSE Inf(IF a > 0 THEN 1 ELSE -1)
    ELSE Num(F32Quot(a, b))

\* r * c for a division result r and a finite positive c
ScaleBy(r, c) == IF r.cls = "num" THEN Num(F32Mul(r.v, c)) ELSE r

F32Clamp(x, lo, hi) == IF x < lo THEN lo ELSE IF x > hi THEN hi ELSE x

\* f32::sqrt, correctly rounded: the s nearest to sqrt(v), both in units of One
RECURSIVE FloorSqrt(_, _, _)
FloorSqrt(n, lo, hi) ==
    IF lo = hi THEN lo
    ELSE LET mid == (lo + hi + 1) \div 2
         IN  IF mid * mid <= n THEN FloorSqrt(n, mid, hi)
             ELSE FloorSqrt(n, lo, mid - 1)

F32Sqrt(v) ==
    LET n == v * One
        s == FloorSqrt(n, 0, 2^15)
    IN  IF n - s * s <= s THEN s ELSE s + 1

\* f32::exp.  For a <= 0, with a = r - k * ln 2 and |r| <= (ln 2)/2,
\* exp(a) = exp(r) / 2^k, and exp(r) is the series 1 + r (1 + r/2 (1 + ...))
\* to the seventh power, r being held with 16 and the sum with 15 fractional
\* bits (ln 2 = 45426 / 2^16).  For a > 0, exp(a) = 1 / exp(-a), which
\* saturates at F32Max where exp(-a) underflows.
ExpOne == 2^15
F32Max == 2^30

RECURSIVE ExpSeries(_, _)
ExpSeries(r, n) ==
    IF n > 6 THEN ExpOne
    ELSE ExpOne + RoundDiv(r * ExpSeries(r, n + 1), n * 2^16)

\* exp(a) for a <= 0, with 15 fractional bits
ExpNeg(a) ==
    LET a16 == a * (2^16 \div One)
        k == RoundDiv(-a16, 45426)
        r == a16 + k * 45426
    IN  IF k > 30 THEN 0 ELSE RoundDiv(ExpSeries(r, 1), 2^k)

F32Exp(a) ==
    IF a <= 0 THEN RoundDiv(ExpNeg(a) * One, ExpOne)
    ELSE LET e == ExpNeg(-a)
         IN  IF e = 0 THEN F32Max ELSE RoundDiv(ExpOne * One, e)

\* f32::ln for 0 < p <= 1.  With p = m / 2^k and 1/2 < m <= 1,
\* ln p = -k * ln 2 - 2 atanh((1-m)/(1+m)), the series being summed with
\* 14 fractional bits.
LnOne == 2^14

RECURSIVE Log2Ceil(_)
Log2Ceil(n) == IF n <= 1 THEN 0 ELSE 1 + Log2Ceil((n + 1) \div 2)

Atanh(t) ==
    LET t2 == RoundDiv(t * t, LnOne)
        h3 == RoundDiv(LnOne, 7)
        h2 == RoundDiv(LnOne, 5) + RoundDiv(t2 * h3, LnOne)
        h1 == RoundDiv(LnOne, 3) + RoundDiv(t2 * h2, LnOne)
        h0 == LnOne + RoundDiv(t2 * h1, LnOne)
    IN  RoundDiv(t * h0, LnOne)

Ln2 == 2 * Atanh(RoundDiv(LnOne, 3))

F32Ln(p) ==
    LET k == FracBits - Log2Ceil(p)
        m == p * 2^k
        lnm == 2 * Atanh(RoundDiv((One - m) * LnOne, One + m))
    IN  -RoundDiv((k * Ln2 + lnm) * One, LnOne)

(***************************************************************************)
(* Data (dataset.rs) and the files it is read from.                         *)
(***************************************************************************)
Ant == "Ant"
Bee == "Bee"
Kind == {Ant, Bee}

\* 3 channels * the raster's pixels (2352 = 3 * 28 * 28 in the program)
INPUT_DIM == 3 * NumPixels

\* The raster an image file decodes and resizes to: NumPixels RGB pixels of
\* 8-bit channels.  File k of a label directory holds a raster of its own;
\* the ants are dark and the bees are bright.
AntRaster(k) ==
    [j \in 1..NumPixels |->
        << (40 * k + 10 * j) % 256, (20 * k + 30 * j) % 256, (60 * k + 5 * j) % 256 >>]

BeeRaster(k) ==
    [j \in 1..NumPixels |->
        << 255 - ((40 * k + 10 * j) % 256), 255 - ((20 * k + 30 * j) % 256),
           255 - ((60 * k + 5 * j) % 256) >>]

\* A directory entry: whether the file can be opened and decoded, and its raster.
ImageFile(ok, raster) == [ok |-> ok, img |-> raster]

\* What a path is on disk.
PathStates == {"dir", "missing", "not_dir", "unreadable"}

Exists(st) == st # "missing"
IsDir(st) == st \in {"dir", "unreadable"}
ReadDirOk(st) == st = "dir"

\* The listings of the two label directories: nA ant files and nB bee files,
\* each decodable or not.
Listings ==
    UNION { { [ant_files |-> [k \in 1..nA |-> ImageFile(fa[k], AntRaster(k))],
               bee_files |-> [k \in 1..nB |-> ImageFile(fb[k], BeeRaster(k))]] :
                 fa \in [1..nA -> BOOLEAN], fb \in [1..nB -> BOOLEAN] } :
            nA \in 0..MaxFiles, nB \in 0..MaxFiles }

\* The dataset directories main can meet.  Below a root that is no directory
\* nothing exists; a label directory that cannot be listed contributes no file.
FileSystems ==
    { [root |-> "missing", ants |-> "missing", bees |-> "missing",
       ant_files |-> << >>, bee_files |-> << >>],
      [root |-> "not_dir", ants |-> "missing", bees |-> "missing",
       ant_files |-> << >>, bee_files |-> << >>] }
    \cup
    UNION { { [root |-> "dir", ants |-> a, bees |-> b,
               ant_files |-> l.ant_files, bee_files |-> l.bee_files] :
                l \in { m \in Listings :
                          /\ Len(m.ant_files) + Len(m.bee_files) <= MaxFiles
                          /\ (a # "dir" => m.ant_files = << >>)
                          /\ (b # "dir" => m.bee_files = << >>) } } :
            a \in PathStates, b \in PathStates }

\* jpg_to_chw of a decodable file: the red plane, then the green, then the
\* blue, every channel value divided by 255.
jpg_to_chw(file) ==
    [j \in 1..INPUT_DIM |->
        F32Quot(FromInt(file.img[((j - 1) % NumPixels) + 1][((j - 1) \div NumPixels) + 1]),
                FromInt(255))]

Data(kind, data) == [kind |-> kind, data |-> data]

\* assert_is_valid_dir: the message of the assertion that fails, or "ok"
assert_is_valid_dir(st) ==
    IF ~Exists(st) THEN "Dataset path does not exist"
    ELSE IF ~IsDir(st) THEN "Dataset path is not a directory"
    ELSE "ok"

\* The three assertions of a debug build, in order: the first failure, or "ok".
DebugAsserts(f) ==
    IF assert_is_valid_dir(f.root) # "ok" THEN assert_is_valid_dir(f.root)
    ELSE IF assert_is_valid_dir(f.ants) # "ok" THEN assert_is_valid_dir(f.ants)
    ELSE assert_is_valid_dir(f.bees)

\* LoopBody with a bug: a file that cannot be decoded is skipped
LoopBodySkipping(vals, file, kind) ==
    IF file.ok
    THEN [panic |-> FALSE, values |-> Append(vals, Data(kind, jpg_to_chw(file)))]
    ELSE [panic |-> FALSE, values |-> vals]

\* One iteration of a loop of from_dataset_path over a directory entry: the
\* unwrap in jpg_to_chw panics on a file that cannot be opened or decoded,
\* otherwise the example is pushed.
LoopBody(vals, file, kind) ==
    IF file.ok
    THEN [panic |-> FALSE, values |-> Append(vals, Data(kind, jpg_to_chw(file)))]
    ELSE [panic |-> TRUE, values |-> vals]

\* values.shuffle(rng) applies the permutation the generator picks, any of
\* the orders of the vector
ShuffleChoices(n) == Permutations(1..n)

\* Shuffled with a bug: every place receives the element drawn first
ShuffledRepeating(vals, p) == [k \in 1..Len(vals) |-> vals[p[1]]]

Shuffled(vals, p) == [k \in 1..Len(vals) |-> vals[p[k]]]

(***************************************************************************)
(* Model (model.rs).                                                        *)
(***************************************************************************)
LEARNING_RATE == Literal(1, 1000)

\* EPS = 1e-7 lies below the f32's spacing at 1, so that 1 - EPS is the
\* largest value clamped to that is still below 1; at the model's resolution
\* that is one unit.
EPS == IF Literal(1, 10000000) > 1 THEN Literal(1, 10000000) ELSE 1

\* self.w.dot(x): the products are rounded and summed
RECURSIVE DotUpTo(_, _, _)
DotUpTo(w, x, n) ==
    IF n = 0 THEN 0 ELSE DotUpTo(w, x, n - 1) + F32Mul(w[n], x[n])

Dot(w, x) == DotUpTo(w, x, Len(w))

sigmoid(z) == F32Quot(One, One + F32Exp(-z))

predict_prob(w, b, x) == sigmoid(Dot(w, x) + b)

\* predict with a bug: the threshold is not strict
predict_at_least(w, b, x) == IF predict_prob(w, b, x) >= Half THEN Bee ELSE Ant

predict(w, b, x) == IF predict_prob(w, b, x) > Half THEN Bee ELSE Ant

cross_entropy_loss(y_pred, y_true) ==
    IF y_true = Ant
    THEN -F32Ln(One - F32Clamp(y_pred, EPS, One - EPS))
    ELSE -F32Ln(F32Clamp(y_pred, EPS, One - EPS))

\* backward with a bug: the gradients of the two labels are exchanged
backward_labels_swapped(w, b, prob, data) ==
    LET dz == IF data.kind = Bee THEN prob ELSE prob - One
        dw == [j \in 1..Len(w) |-> F32Mul(data.data[j], dz)]
        db == dz
    IN  [w |-> [j \in 1..Len(w) |-> w[j] + F32Mul(-LEARNING_RATE, dw[j])],
         b |-> b - F32Mul(LEARNING_RATE, db)]

\* backward: the parameters after the gradient step for (prob, data)
backward(w, b, prob, data) ==
    LET dz == IF data.kind = Ant THEN prob ELSE prob - One
        dw == [j \in 1..Len(w) |-> F32Mul(data.data[j], dz)]
        db == dz
    IN  [w |-> [j \in 1..Len(w) |-> w[j] + F32Mul(-LEARNING_RATE, dw[j])],
         b |-> b - F32Mul(LEARNING_RATE, db)]

\* train_step with a bug: the loss is computed after the update
train_step_loss_after(w, b, data) ==
    LET prob == predict_prob(w, b, data.data)
        new == backward(w, b, prob, data)
        loss == cross_entropy_loss(predict_prob(new.w, new.b, data.data), data.kind)
    IN  [w |-> new.w, b |-> new.b, loss |-> loss]

\* train_step: the updated parameters and the returned loss
train_step(w, b, data) ==
    LET prob == predict_prob(w, b, data.data)
        loss == cross_entropy_loss(prob, data.kind)
        new == backward(w, b, prob, data)
    IN  [w |-> new.w, b |-> new.b, loss |-> loss]

\* CorrectUpTo with a bug: the first example is not looked at
RECURSIVE CorrectFromSecond(_, _, _, _)
CorrectFromSecond(w, b, vals, n) ==
    IF n <= 1 THEN 0
    ELSE CorrectFromSecond(w, b, vals, n - 1)
         + (IF predict(w, b, vals[n].data) = vals[n].kind THEN 1 ELSE 0)

\* the loop of evaluate: the number of the first n examples predicted right
RECURSIVE CorrectUpTo(_, _, _, _)
CorrectUpTo(w, b, vals, n) ==
    IF n = 0 THEN 0
    ELSE CorrectUpTo(w, b, vals, n - 1)
         + (IF predict(w, b, vals[n].data) = vals[n].kind THEN 1 ELSE 0)

evaluate(w, b, vals) ==
    F32Div(FromInt(CorrectUpTo(w, b, vals, Len(vals))), FromInt(Len(vals)))

\* Model::new for the draws r[1..INPUT_DIM] of random::<f32>(), each in [0, 1)
ModelNew(r) ==
    LET scale == F32Sqrt(F32Quot(FromInt(2), FromInt(INPUT_DIM)))
    IN  [w |-> [j \in 1..INPUT_DIM |->
                  F32Mul(F32Mul(r[j] - Half, FromInt(2)), scale)],
         b |-> 0]

\* The draws of the generator the model follows: all 1/2 (every weight 0),
\* all 0 (every weight -scale), and the largest draw alternating with 3/4.
RandomDraws ==
    { [j \in 1..INPUT_DIM |-> Half],
      [j \in 1..INPUT_DIM |-> 0],
      [j \in 1..INPUT_DIM |-> IF j % 2 = 1 THEN One - 1 ELSE Half + Half \div 2] }

(***************************************************************************)
(* main.rs.                                                                 *)
(***************************************************************************)
EPOCHS == 150

\* "{:.d}" of a division result: the decimal digits printed, or NaN / inf
Fmt(r, places) ==
    IF r.cls = "num"
    THEN [cls |-> "num", digits |-> RoundDiv(r.v * 10^places, One)]
    ELSE [cls |-> r.cls, digits |-> 0]

\* the line train_model prints after a reporting epoch
EpochLine(epoch, total_loss, n, w, b, vals) ==
    LET avg_loss == F32Div(total_loss, n)
        accuracy == evaluate(w, b, vals)
    IN  [tag |-> "epoch", epoch |-> epoch, loss |-> Fmt(avg_loss, 4),
         acc |-> Fmt(ScaleBy(accuracy, FromInt(100)), 2)]

\* the line test_model prints
TestLine(w, b, vals) ==
    [tag |-> "test", epoch |-> 0, loss |-> Fmt(Num(0), 4),
     acc |-> Fmt(ScaleBy(evaluate(w, b, vals), FromInt(100)), 2)]

Message(text) == [tag |-> text, epoch |-> 0, loss |-> Fmt(Num(0), 4), acc |-> Fmt(Num(0), 2)]

\* Reports with a bug: the report comes after every tenth epoch run
ReportsAfterTenth(epoch) == (epoch + 1) % 10 = 0

\* whether train_model reports after this epoch
Reports(epoch) == epoch % 10 = 0

\* NextExample with a bug: the dataset is walked from its end
NextExampleBackwards(vals, i) == vals[Len(vals) - i]

\* the example the loop of train_model takes after i examples of the epoch
NextExample(vals, i) == vals[i + 1]

(***************************************************************************)
(* The state of a run of main.                                              *)
(***************************************************************************)
VARIABLES
    debug_assertions,   \* cfg(debug_assertions): a debug or a release build
    pc,                 \* where the run is
    err,                \* the panic that ended the run, or "none"
    out,                \* the lines printed so far
    fs,                 \* the directory tree from_dataset_path is reading
    split,              \* "train" or "val": the dataset being built or built last
    values,             \* from_dataset_path: the vector under construction
    it,                 \* from_dataset_path: entries taken from the current directory
    calls,              \* from_dataset_path: calls of jpg_to_chw made by this build
    train_dataset,      \* main: the train dataset, once built
    test_dataset,       \* main: the test dataset, once built
    w,                  \* Model.w (empty before Model::new)
    b,                  \* Model.b
    epoch,              \* train_model: the epoch running
    i,                  \* train_model: examples trained on in this epoch
    total_loss,         \* train_model: the loss summed in this epoch
    ret                 \* the last call of a method made on its own, and its result

vars == << debug_assertions, pc, err, out, fs, split, values, it, calls,
           train_dataset, test_dataset, w, b, epoch, i, total_loss, ret >>

None == [some |-> FALSE, values |-> << >>]
Some(vals) == [some |-> TRUE, values |-> vals]

NoFs == [root |-> "missing", ants |-> "missing", bees |-> "missing",
         ant_files |-> << >>, bee_files |-> << >>]

NoRet == [op |-> "none", arg |-> 0, kind |-> Ant, val |-> Num(0)]

Init ==
    /\ debug_assertions \in BOOLEAN
    /\ pc = "main_load_train"
    /\ err = "none"
    /\ out = << >>
    /\ fs = NoFs
    /\ split = "train"
    /\ values = << >>
    /\ it = 0
    /\ calls = 0
    /\ train_dataset = None
    /\ test_dataset = None
    /\ w = << >>
    /\ b = 0
    /\ epoch = 0
    /\ i = 0
    /\ total_loss = 0
    /\ ret = NoRet

\* a panic ends the run: no action is enabled at "panicked"
Panic(msg) ==
    /\ pc' = "panicked"
    /\ err' = msg

(***************************************************************************)
(* main, up to the first dataset (main.rs:35-39).                           *)
(***************************************************************************)
LoadTrain ==
    /\ pc = "main_load_train"
    /\ out' = Append(out, Message("loading train dataset"))
    /\ \E f \in FileSystems : fs' = f
    /\ split' = "train"
    /\ calls' = 0
    /\ pc' = "fdp_asserts"
    /\ UNCHANGED << debug_assertions, err, values, it, train_dataset,
                    test_dataset, w, b, epoch, i, total_loss, ret >>

(***************************************************************************)
(* Dataset::from_dataset_path (dataset.rs:57-88).                           *)
(***************************************************************************)
\* lines 58-69: the assertions of a debug build, then the empty vector
FdpAsserts ==
    /\ pc = "fdp_asserts"
    /\ IF debug_assertions /\ DebugAsserts(fs) # "ok"
       THEN Panic(DebugAsserts(fs)) /\ UNCHANGED << values, it >>
       ELSE /\ pc' = "fdp_read_ants"
            /\ values' = << >>
            /\ it' = 0
            /\ UNCHANGED err
    /\ UNCHANGED << debug_assertions, out, fs, split, calls, train_dataset, test_dataset,
                    w, b, epoch, i, total_loss, ret >>

\* line 71: read_dir(ants_dir).unwrap()
ReadDirAnts ==
    /\ pc = "fdp_read_ants"
    /\ IF ReadDirOk(fs.ants)
       THEN pc' = "fdp_ants" /\ UNCHANGED err
       ELSE Panic("read_dir")
    /\ it' = 0
    /\ UNCHANGED << debug_assertions, out, fs, split, values, calls, train_dataset,
                    test_dataset, w, b, epoch, i, total_loss, ret >>

\* one turn of a loop over the entries `files`, pushing examples of `kind`
LoopTurn(here, files, kind, after) ==
    /\ pc = here
    /\ IF it < Len(files)
       THEN LET r == LoopBody(values, files[it + 1], kind)
            IN  /\ calls' = calls + 1
                /\ it' = it + 1
                /\ values' = r.values
                /\ IF r.panic THEN Panic("decode") ELSE UNCHANGED << pc, err >>
       ELSE /\ pc' = after
            /\ UNCHANGED << err, values, it, calls >>
    /\ UNCHANGED << debug_assertions, out, fs, split, train_dataset, test_dataset,
                    w, b, epoch, i, total_loss, ret >>

\* lines 71-77
AntsLoop == LoopTurn("fdp_ants", fs.ant_files, Ant, "fdp_read_bees")

\* line 78: read_dir(bees_dir).unwrap()
ReadDirBees ==
    /\ pc = "fdp_read_bees"
    /\ IF ReadDirOk(fs.bees)
       THEN pc' = "fdp_bees" /\ UNCHANGED err
       ELSE Panic("read_dir")
    /\ it' = 0
    /\ UNCHANGED << debug_assertions, out, fs, split, values, calls, train_dataset,
                    test_dataset, w, b, epoch, i, total_loss, ret >>

\* lines 78-84
BeesLoop == LoopTurn("fdp_bees", fs.bee_files, Bee, "fdp_shuffle")

\* lines 86-87: shuffle, and return the dataset to main
ShuffleReturn ==
    /\ pc = "fdp_shuffle"
    /\ \E p \in ShuffleChoices(Len(values)) :
          IF split = "train"
          THEN /\ train_dataset' = Some(Shuffled(values, p))
               /\ pc' = "main_new_model"
               /\ UNCHANGED test_dataset
          ELSE /\ test_dataset' = Some(Shuffled(values, p))
               /\ pc' = "main_test"
               /\ UNCHANGED train_dataset
    /\ values' = << >>
    /\ UNCHANGED << debug_assertions, err, out, fs, split, it, calls, w, b, epoch,
                    i, total_loss, ret >>

(***************************************************************************)
(* main.rs:41-43 and train_model (main.rs:6-28).                            *)
(***************************************************************************)
\* Model::new(), and train_model up to its first epoch
NewModel ==
    /\ pc = "main_new_model"
    /\ out' = Append(out, Message("starting training"))
    /\ \E r \in RandomDraws :
          /\ w' = ModelNew(r).w
          /\ b' = ModelNew(r).b
    /\ epoch' = 0
    /\ i' = 0
    /\ total_loss' = 0
    /\ pc' = "train"
    /\ UNCHANGED << debug_assertions, err, fs, split, values, it, calls,
                    train_dataset, test_dataset, ret >>

\* main.rs:13-14: total_loss += model.train_step(data)
TrainStep ==
    /\ pc = "train"
    /\ epoch < EPOCHS
    /\ i < Len(train_dataset.values)
    /\ LET r == train_step(w, b, NextExample(train_dataset.values, i))
       IN  /\ w' = r.w
           /\ b' = r.b
           /\ total_loss' = total_loss + r.loss
    /\ i' = i + 1
    /\ UNCHANGED << debug_assertions, pc, err, out, fs, split, values, it, calls,
                    train_dataset, test_dataset, epoch, ret >>

\* main.rs:17-26: the end of an epoch, with the report of every tenth
EpochEnd ==
    /\ pc = "train"
    /\ epoch < EPOCHS
    /\ i = Len(train_dataset.values)
    /\ out' = IF Reports(epoch)
              THEN Append(out, EpochLine(epoch, total_loss,
                                         FromInt(Len(train_dataset.values)),
                                         w, b, train_dataset.values))
              ELSE out
    /\ epoch' = epoch + 1
    /\ i' = 0
    /\ total_loss' = 0
    /\ UNCHANGED << debug_assertions, pc, err, fs, split, values, it, calls,
                    train_dataset, test_dataset, w, b, ret >>

\* the loop is over: train_model returns
TrainReturn ==
    /\ pc = "train"
    /\ epoch = EPOCHS
    /\ pc' = "main_load_val"
    /\ UNCHANGED << debug_assertions, err, out, fs, split, values, it, calls,
                    train_dataset, test_dataset, w, b, epoch, i, total_loss, ret >>

(***************************************************************************)
(* main.rs:45-49.                                                           *)
(***************************************************************************)
LoadVal ==
    /\ pc = "main_load_val"
    /\ out' = Append(out, Message("loading test dataset"))
    /\ \E f \in FileSystems : fs' = f
    /\ split' = "val"
    /\ calls' = 0
    /\ pc' = "fdp_asserts"
    /\ UNCHANGED << debug_assertions, err, values, it, train_dataset,
                    test_dataset, w, b, epoch, i, total_loss, ret >>

TestModel ==
    /\ pc = "main_test"
    /\ out' = Append(Append(out, Message("starting testing")),
                     TestLine(w, b, test_dataset.values))
    /\ pc' = "done"
    /\ UNCHANGED << debug_assertions, err, fs, split, values, it, calls,
                    train_dataset, test_dataset, w, b, epoch, i, total_loss, ret >>

Next ==
    \/ LoadTrain
    \/ FdpAsserts
    \/ ReadDirAnts
    \/ AntsLoop
    \/ ReadDirBees
    \/ BeesLoop
    \/ ShuffleReturn
    \/ NewModel
    \/ TrainStep
    \/ EpochEnd
    \/ TrainReturn
    \/ LoadVal
    \/ TestModel

Spec == Init /\ [][Next]_vars

(***************************************************************************)
(* The methods of Model called on their own: a model as Model::new leaves  *)
(* it, a dataset as from_dataset_path returns it, and then any calls of    *)
(* train_step, predict and evaluate.                                        *)
(***************************************************************************)
\* train_step calls made in a row
MaxCalls == 2

\* the examples of a tree whose files all decode, in the order they are read
ExamplesOf(f) ==
    [k \in 1..(Len(f.ant_files) + Len(f.bee_files)) |->
        IF k <= Len(f.ant_files)
        THEN Data(Ant, jpg_to_chw(f.ant_files[k]))
        ELSE Data(Bee, jpg_to_chw(f.bee_files[k - Len(f.ant_files)]))]

AllFiles(f) == f.ant_files \o f.bee_files

\* the datasets from_dataset_path can return
Datasets ==
    UNION { { Shuffled(ExamplesOf(f), p) : p \in ShuffleChoices(Len(AllFiles(f))) } :
            f \in { g \in FileSystems :
                      /\ ReadDirOk(g.ants) /\ ReadDirOk(g.bees)
                      /\ \A k \in DOMAIN AllFiles(g) : AllFiles(g)[k].ok } }

\* the draws of the generator followed here: every draw the same, from 0 to
\* the largest value below 1, and two alternating ones
MethodDraws ==
    { [j \in 1..INPUT_DIM |-> c] :
        c \in {0, Half \div 2, Half, Half + Half \div 2, One - 1} }
    \cup
    { [j \in 1..INPUT_DIM |-> IF j % 2 = 1 THEN One - 1 ELSE Half + Half \div 2],
      [j \in 1..INPUT_DIM |-> IF j % 2 = 1 THEN 0 ELSE One - 1] }

MethodInit ==
    /\ debug_assertions = FALSE
    /\ pc = "methods"
    /\ err = "none"
    /\ out = << >>
    /\ fs = NoFs
    /\ split = "train"
    /\ values = << >>
    /\ it = 0
    /\ calls = 0
    /\ \E d \in Datasets : train_dataset = Some(d)
    /\ test_dataset = None
    /\ \E r \in MethodDraws :
          /\ w = ModelNew(r).w
          /\ b = ModelNew(r).b
    /\ epoch = 0
    /\ i = 0
    /\ total_loss = 0
    /\ ret = NoRet

CallTrainStep ==
    /\ pc = "methods"
    /\ i < MaxCalls
    /\ \E j \in 1..Len(train_dataset.values) :
          LET d == train_dataset.values[j]
              r == train_step(w, b, d)
          IN  /\ w' = r.w
              /\ b' = r.b
              /\ ret' = [op |-> "train_step", arg |-> j, kind |-> d.kind,
                         val |-> Num(r.loss)]
    /\ i' = i + 1
    /\ UNCHANGED << debug_assertions, pc, err, out, fs, split, values, it, calls,
                    train_dataset, test_dataset, epoch, total_loss >>

CallPredict ==
    /\ pc = "methods"
    /\ \E j \in 1..Len(train_dataset.values) :
          ret' = [op |-> "predict", arg |-> j,
                  kind |-> predict(w, b, train_dataset.values[j].data),
                  val |-> Num(0)]
    /\ UNCHANGED << debug_assertions, pc, err, out, fs, split, values, it, calls,
                    train_dataset, test_dataset, w, b, epoch, i, total_loss >>

CallEvaluate ==
    /\ pc = "methods"
    /\ ret' = [op |-> "evaluate", arg |-> 0, kind |-> Ant,
               val |-> evaluate(w, b, train_dataset.values)]
    /\ UNCHANGED << debug_assertions, pc, err, out, fs, split, values, it, calls,
                    train_dataset, test_dataset, w, b, epoch, i, total_loss >>

MethodNext ==
    \/ CallTrainStep
    \/ CallPredict
    \/ CallEvaluate

MethodSpec == MethodInit /\ [][MethodNext]_vars

(***************************************************************************)
(* Properties of from_dataset_path.                                         *)
(***************************************************************************)
\* the dataset from_dataset_path returned for the tree fs, if it has returned
Built == IF split = "train" THEN train_dataset ELSE test_dataset

Occurrences(seq, x) == Cardinality({k \in DOMAIN seq : seq[k] = x})

OfKind(seq, kind) == Cardinality({k \in DOMAIN seq : seq[k].kind = kind})

\* C1: a dataset built from a tree of N_A ant files and N_B bee files holds
\* N_A + N_B examples, N_A of them Ant and N_B of them Bee, and holds every
\* example of the tree as often as the tree does, whatever the shuffle picked.
C1_LabelCountsPreserved ==
    Built.some =>
        LET d == Built.values
            e == ExamplesOf(fs)
        IN  /\ Len(d) = Len(fs.ant_files) + Len(fs.bee_files)
            /\ OfKind(d, Ant) = Len(fs.ant_files)
            /\ OfKind(d, Bee) = Len(fs.bee_files)
            /\ \A k \in DOMAIN e : Occurrences(d, e[k]) = Occurrences(e, e[k])

\* a dataset of one ant and one bee that the shuffle has put bee first
C1_Witness ==
    /\ Built.some
    /\ Len(fs.ant_files) = 1
    /\ Len(fs.bee_files) = 1
    /\ Built.values[1].kind = Bee

\* a label directory is missing, is no directory or cannot be listed
LabelDirBad(f) == ~ReadDirOk(f.ants) \/ ~ReadDirOk(f.bees)

\* the panics that report a bad directory
ConfigErrors ==
    {"Dataset path does not exist", "Dataset path is not a directory", "read_dir"}

\* C2: with a label directory that is missing, no directory or unreadable,
\* the build fails with a configuration error before any file is decoded:
\* jpg_to_chw is never called, and no dataset is returned.
C2_ConfigErrorBeforeDecoding ==
    (pc # "main_load_train" /\ LabelDirBad(fs)) =>
        /\ calls = 0
        /\ ~Built.some
        /\ (pc = "panicked" => err \in ConfigErrors)

\* C3: no report of an average loss or an accuracy is NaN, an empty dataset
\* being refused instead.
C3_NoNaNReported ==
    \A k \in DOMAIN out : out[k].loss.cls # "nan" /\ out[k].acc.cls # "nan"

\* the place of the first file of the tree that cannot be decoded, or 0
FirstBad(files) ==
    IF \A k \in DOMAIN files : files[k].ok THEN 0
    ELSE CHOOSE k \in DOMAIN files :
            /\ ~files[k].ok
            /\ \A m \in 1..(k - 1) : files[m].ok

\* C4: a file that cannot be opened or decoded aborts the build at that file:
\* the run has panicked with no dataset returned for the tree, jpg_to_chw was
\* called on the files up to the bad one and on none after it, a dataset is
\* only ever returned for a tree whose files all decode, a failing train
\* build is followed by no model and no epoch, and nothing runs after a panic.
C4_State ==
    /\ (err = "decode" =>
          /\ pc = "panicked"
          /\ ~Built.some
          /\ calls = FirstBad(AllFiles(fs))
          /\ calls > 0
          /\ (split = "train" => w = << >> /\ epoch = 0 /\ ~train_dataset.some))
    /\ (FirstBad(AllFiles(fs)) > 0 => calls <= FirstBad(AllFiles(fs)))
    /\ (Built.some => FirstBad(AllFiles(fs)) = 0)
    /\ (pc = "panicked" <=> err # "none")

\* C4: C4_State in every state, and no step from a panicked state
C4_DecodeErrorAborts == []C4_State /\ [][pc # "panicked"]_vars

\* the first of two train files does not decode: the run has stopped there
C4_Witness ==
    /\ err = "decode"
    /\ split = "train"
    /\ calls = 1
    /\ Len(AllFiles(fs)) = 2

(***************************************************************************)
(* Properties of train_model.                                               *)
(***************************************************************************)
IsEpochLine(r) == r.tag = "epoch"

EpochLines == SelectSeq(out, IsEpochLine)

\* C5: train_model runs EPOCHS epochs and stops, and has reported after the
\* epochs 0, 10, 20, ... run so far and after no other: once it has returned,
\* 150 epochs have run and the reports are those of epochs 0, 10, ..., 140.
C5_EpochsAndReports ==
    /\ epoch <= EPOCHS
    /\ Len(EpochLines) = (epoch + 9) \div 10
    /\ \A k \in DOMAIN EpochLines : EpochLines[k].epoch = 10 * (k - 1)
    /\ (pc \in {"main_load_val", "main_test", "done"} =>
          /\ epoch = EPOCHS
          /\ Len(EpochLines) = 15)
    /\ (split = "val" => epoch = EPOCHS)

\* train_model has returned from training on two examples
C5_Witness ==
    /\ pc = "main_load_val"
    /\ epoch = 150
    /\ Len(train_dataset.values) = 2
    /\ EpochLines[15].epoch = 140

\* C10: the train dataset never changes once it is built; within an epoch
\* train_step is called on the examples in their stored order, each call
\* starting from the parameters the one before left and adding its loss to the
\* sum; an epoch ends only after the last example, leaves the parameters as
\* they are, and reports the sum divided by the size of the dataset.
C10_Step ==
    /\ (train_dataset.some => train_dataset' = train_dataset)
    /\ (pc = "train" /\ pc' = "train" =>
          LET vals == train_dataset.values
          IN  \/ /\ i < Len(vals)
                 /\ i' = i + 1
                 /\ epoch' = epoch
                 /\ out' = out
                 /\ LET r == train_step(w, b, vals[i + 1])
                    IN  /\ w' = r.w
                        /\ b' = r.b
                        /\ total_loss' = total_loss + r.loss
              \/ /\ i = Len(vals)
                 /\ i' = 0
                 /\ epoch' = epoch + 1
                 /\ w' = w
                 /\ b' = b
                 /\ (out' # out =>
                       /\ Len(out') = Len(out) + 1
                       /\ out'[Len(out')].epoch = epoch
                       /\ out'[Len(out')].loss =
                             Fmt(F32Div(total_loss, FromInt(Len(vals))), 4)))

\* C10: every step of the run is a C10_Step
C10_FixedOrderEveryEpoch == [][C10_Step]_vars

\* in the second epoch, both of two different examples have been trained on
C10_Witness ==
    /\ pc = "train"
    /\ epoch = 1
    /\ i = 2
    /\ Len(train_dataset.values) = 2
    /\ train_dataset.values[1] # train_dataset.values[2]
    /\ total_loss > 0

(***************************************************************************)
(* Properties of the methods of Model.                                      *)
(***************************************************************************)
\* the feature vector of the last call
ArgData == train_dataset.values[ret.arg].data

ZeroModel == b = 0 /\ \A j \in DOMAIN w : w[j] = 0

\* C6: train_step returns the loss of the probability the parameters on
\* entry give, and the parameters it leaves are the gradient step for that
\* same probability.
C6_Step ==
    (ret'.op = "train_step" /\ i' = i + 1) =>
        LET d == train_dataset.values[ret'.arg]
            p == predict_prob(w, b, d.data)
        IN  /\ ret'.val = Num(cross_entropy_loss(p, d.kind))
            /\ w' = backward(w, b, p, d).w
            /\ b' = backward(w, b, p, d).b

\* C6: every call of train_step is a C6_Step
C6_LossOfPreUpdateModel == [][C6_Step]_vars

\* a train_step has returned a loss that the parameters it left no longer give
C6_Witness ==
    /\ ret.op = "train_step"
    /\ ret.val.v # cross_entropy_loss(predict_prob(w, b, ArgData), ret.kind)

\* C7: predict answers Bee exactly when the probability is above 0.5, so
\* Ant at exactly 0.5; with all weights and the bias zero the probability of
\* every input is 0.5 and the answer is Ant.
C7_StrictThreshold ==
    ret.op = "predict" =>
        LET p == predict_prob(w, b, ArgData)
        IN  /\ (ret.kind = Bee <=> p > Half)
            /\ (p = Half => ret.kind = Ant)
            /\ (ZeroModel =>
                  /\ ret.kind = Ant
                  /\ \A k \in DOMAIN train_dataset.values :
                        predict_prob(w, b, train_dataset.values[k].data) = Half)

\* the model of zero parameters has been asked about a bee
C7_Witness ==
    /\ ret.op = "predict"
    /\ ZeroModel
    /\ train_dataset.values[ret.arg].kind = Bee
    /\ ret.kind = Ant

\* the examples whose predicted label is their label
Matches ==
    {k \in DOMAIN train_dataset.values :
        predict(w, b, train_dataset.values[k].data) = train_dataset.values[k].kind}

\* C8: on a dataset that is not empty evaluate returns the number of
\* examples predicted right divided by the size of the dataset: 1.0 when all
\* are right, 0.0 when none is, between the two otherwise; it counts every
\* example once.
C8_State ==
    (ret.op = "evaluate" /\ Len(train_dataset.values) > 0) =>
        LET n == Len(train_dataset.values)
            c == Cardinality(Matches)
        IN  /\ ret.val = Num(F32Quot(FromInt(c), FromInt(n)))
            /\ ret.val.v >= 0 /\ ret.val.v <= One
            /\ (c = n => ret.val.v = One)
            /\ (c = 0 => ret.val.v = 0)

\* C8: evaluate leaves the parameters and the dataset as they are
C8_Step == ret'.op = "evaluate" => (w' = w /\ b' = b /\ train_dataset' = train_dataset)

\* C8: C8_State in every state, and evaluate changes nothing it reads
C8_AccuracyIsFractionCorrect == []C8_State /\ [][C8_Step]_vars

\* one of two examples is predicted right: the accuracy is 0.5
C8_Witness ==
    /\ ret.op = "evaluate"
    /\ Len(train_dataset.values) = 2
    /\ Cardinality(Matches) = 1
    /\ ret.val.v = Half

\* a train_step on a Bee example x whose probability is below 1
C9_BeeStep(x) ==
    /\ ret'.op = "train_step"
    /\ i' = i + 1
    /\ ret'.kind = Bee
    /\ predict_prob(w, b, x) < One

\* C9, strict: a train_step on a Bee example whose probability p is below 1
\* leaves a probability for that example strictly above p.
C9_StrictStep ==
    LET x == train_dataset.values[ret'.arg].data
    IN  C9_BeeStep(x) => predict_prob(w', b', x) > predict_prob(w, b, x)

\* C9, strict: every train_step on a Bee example raises its probability
C9_StrictIncrease == [][C9_StrictStep]_vars

\* C9, rounded: the step is w <- w - 0.001 * x * dz and b <- b - 0.001 * dz
\* with dz = p - 1, the values rounded as the f32 rounds them, and it leaves
\* the pre-activation and the probability of that example no smaller than
\* they were.
C9_Step ==
    LET x == train_dataset.values[ret'.arg].data
        p == predict_prob(w, b, x)
        dz == p - One
    IN  C9_BeeStep(x) =>
          /\ b' = b - F32Mul(LEARNING_RATE, dz)
          /\ \A j \in DOMAIN w : w'[j] = w[j] + F32Mul(-LEARNING_RATE, F32Mul(x[j], dz))
          /\ Dot(w', x) + b' >= Dot(w, x) + b
          /\ predict_prob(w', b', x) >= p

\* C9, rounded: no train_step on a Bee example lowers its probability
C9_NoDecrease == [][C9_Step]_vars

\* a train_step on a bee after which the loss of that bee is smaller than the
\* loss the step returned: its probability has risen
C9_Witness ==
    /\ ret.op = "train_step"
    /\ ret.kind = Bee
    /\ cross_entropy_loss(predict_prob(w, b, ArgData), Bee) < ret.val.v

====
